---- MODULE Spec2Model ----
(***************************************************************************)
(* Model of CollectionToIndex (navlayers/collections/col_to_index.py):     *)
(* generate_index merges collection bundles read from files, from a        *)
(* directory scan or passed in memory into one index; extract_collection   *)
(* folds one bundle into the identity-keyed table.                         *)
(*                                                                         *)
(* A timestamp string is [local, tz]: a wall-clock hour and a zone suffix. *)
(* A datetime is [local, utcoffset]; datetimes compare by instant.         *)
(* A dict that keeps insertion order is a sequence of records.             *)
(*                                                                         *)
(* Layout (navlayers/core/layout.py): the settings of a layout object and  *)
(* compute_aggregate, the aggregate score of a technique and its           *)
(* subtechniques.                                                          *)
(***************************************************************************)
EXTENDS Integers, Sequences, FiniteSets, TLC

\* ------------------------------------------------------------------ bounds
MaxObjects == 3
MaxRuns == 2
MaxSubtechniques == 2

\* ------------------------------------------------------- timestamp handling
TimeStr(l, z) == [local |-> l, tz |-> z]

\* dateutil.parser.isoparse: "Z" and "+00:00" are both UTC
isoparse(s) == [local |-> s.local, utcoffset |-> IF s.tz = "+01:00" THEN 1 ELSE 0]

\* datetime.isoformat of an aware datetime: UTC is always spelled "+00:00"
isoformat(dt) == [local |-> dt.local, tz |-> IF dt.utcoffset = 0 THEN "+00:00" ELSE "+01:00"]

\* aware datetimes are ordered by the instant they denote
Instant(dt) == dt.local - dt.utcoffset

DtLess(a, b) == Instant(a) < Instant(b)

DtGreater(a, b) == Instant(a) > Instant(b)

\* ------------------------------------------------------------ input objects
COLLECTION == "x-mitre-collection"

None == [none |-> TRUE]

Alpha == [version |-> "1.0", name |-> "Alpha", description |-> "first"]

Beta == [version |-> "2.0", name |-> "Beta", description |-> "second"]

CollectionObject(i, c, m, l) ==
    [type |-> COLLECTION, id |-> i, created |-> c, modified |-> m,
     x_mitre_version |-> l.version, name |-> l.name, description |-> l.description]

OtherObject == [type |-> "attack-pattern", id |-> "P"]

\* The input objects: four revisions of collection X (two of them modified at
\* the same instant, written in different zones), one revision of collection
\* Y, and an object that is no collection.
ObjectPool ==
    { CollectionObject("X", TimeStr(2, "Z"), TimeStr(1, "Z"), Alpha),
      CollectionObject("X", TimeStr(1, "Z"), TimeStr(2, "+01:00"), Beta),
      CollectionObject("X", TimeStr(1, "Z"), TimeStr(2, "Z"), Alpha),
      CollectionObject("X", TimeStr(2, "Z"), TimeStr(3, "Z"), Beta),
      CollectionObject("Y", TimeStr(1, "Z"), TimeStr(2, "Z"), Alpha),
      OtherObject }

\* objs cut into consecutive non-empty bundles behind the positions in cuts
RECURSIVE Split(_, _)
Split(objs, cuts) ==
    IF objs = << >> THEN << >>
    ELSE LET ends == { c \in cuts \cup { Len(objs) } : c >= 1 /\ c <= Len(objs) }
             first == CHOOSE c \in ends : \A d \in ends : c <= d
         IN << SubSeq(objs, 1, first) >>
            \o Split(SubSeq(objs, first + 1, Len(objs)), { c - first : c \in cuts \ (0..first) })

ObjectLists == UNION { [1..t -> ObjectPool] : t \in 0..MaxObjects }

\* every way to spread up to MaxObjects objects over non-empty bundles
SourceLists ==
    UNION { { Split(objs, cuts) : cuts \in SUBSET (1..(Len(objs) - 1)) } : objs \in ObjectLists }

\* --------------------------------------------------------------- filesystem
Folder == "collections"

VersionFile(i) == [stem |-> "enterprise-attack-", ver |-> i, ext |-> ".json"]

ReadmeFile == [stem |-> "readme", ver |-> 0, ext |-> ".md"]

\* version_regex.match(fname)
version_regex_match(fname) ==
    fname.stem = "enterprise-attack-" /\ fname.ver > 0 /\ fname.ext = ".json"

\* os.path.join(folder, fname)
join(folder, fname) == [dir |-> folder, file |-> fname]

RootUrls ==
    { [text |-> "https://example.org/index", endswith_slash |-> FALSE] }

\* root_url + file if root_url ends with "/", else root_url + "/" + file
FileUrl(root, path) ==
    IF root.endswith_slash THEN << root.text, path >> ELSE << root.text, "/", path >>

ImportedUrl == << "Imported" >>

\* ------------------------------------------------------- extract_collection
IsCollection(x) == x.type = COLLECTION

HasId(table, i) == \E k \in 1..Len(table) : table[k].id = i

IndexOf(table, i) == CHOOSE k \in 1..Len(table) : table[k].id = i

SortKey(version) == isoparse(version.modified)

\* v placed in front of the elements of equal key: ties come out reversed
RECURSIVE InsertDescBeforeTies(_, _)
InsertDescBeforeTies(s, v) ==
    IF s = << >> THEN << v >>
    ELSE IF ~DtGreater(SortKey(Head(s)), SortKey(v)) THEN << v >> \o s
    ELSE << Head(s) >> \o InsertDescBeforeTies(Tail(s), v)

\* place v behind every element whose key is not smaller: equal keys keep
\* their order (list.sort is stable, also with reverse=True)
RECURSIVE InsertDesc(_, _)
InsertDesc(s, v) ==
    IF s = << >> THEN << v >>
    ELSE IF DtLess(SortKey(Head(s)), SortKey(v)) THEN << v >> \o s
    ELSE << Head(s) >> \o InsertDesc(Tail(s), v)

RECURSIVE SortInto(_, _)
SortInto(acc, rest) ==
    IF rest = << >> THEN acc ELSE SortInto(InsertDesc(acc, Head(rest)), Tail(rest))

\* the sort left out (deferred to a later step)
sort_deferred(versions) == versions

\* versions.sort(key=lambda version: isoparse(version["modified"]), reverse=True)
sort_versions(versions) == SortInto(<< >>, versions)

NewVersion(obj, url) ==
    [version |-> obj.x_mitre_version, url |-> url, modified |-> obj.modified,
     name |-> obj.name, description |-> obj.description]

NewRecord(obj) == [id |-> obj.id, created |-> obj.created, versions |-> << >>]

\* the membership test left out: every object starts its record afresh
extract_object_always_creating(table, obj, url) ==
    LET t1 == IF HasId(table, obj.id)
              THEN [table EXCEPT ![IndexOf(table, obj.id)] = NewRecord(obj)]
              ELSE Append(table, NewRecord(obj))
        k == IndexOf(t1, obj.id)
    IN [t1 EXCEPT ![k].versions = sort_versions(Append(@, NewVersion(obj, url)))]

\* created refreshed from every object seen, not only from the first
extract_object_refreshing_created(table, obj, url) ==
    LET t1 == IF HasId(table, obj.id) THEN table ELSE Append(table, NewRecord(obj))
        k == IndexOf(t1, obj.id)
    IN [t1 EXCEPT ![k].created = obj.created,
                  ![k].versions = sort_versions(Append(@, NewVersion(obj, url)))]

\* one iteration of the loop of extract_collection
extract_object(table, obj, url) ==
    LET t1 == IF HasId(table, obj.id) THEN table ELSE Append(table, NewRecord(obj))
        k == IndexOf(t1, obj.id)
    IN [t1 EXCEPT ![k].versions = sort_versions(Append(@, NewVersion(obj, url)))]

RECURSIVE extract_objects(_, _, _)
extract_objects(objs, table, url) ==
    IF objs = << >> THEN table
    ELSE extract_objects(Tail(objs), extract_object(table, Head(objs), url), url)

\* what iterating bundle["objects"] yields: a list yields its items, a lazy
\* filter object yields the collection objects among what it has not consumed
Yielded(objects) ==
    IF objects.kind = "list" THEN objects.items ELSE SelectSeq(objects.items, IsCollection)

\* the iterable after it has been iterated to the end
Exhausted(objects) ==
    IF objects.kind = "list" THEN objects ELSE [objects EXCEPT !.items = << >>]

\* line 97: the objects the loop of extract_collection visits
visited(bundle) == SelectSeq(Yielded(bundle.objects), IsCollection)

extract_collection(bundle, table, url) == extract_objects(visited(bundle), table, url)

\* ----------------------------------------------------------- generate_index
IndexName == "ATT&CK collections"

IndexDescription == "index of collections"

UsageMessage ==
    "cannot use both files and folder at the same time, please use only one argument at a time"

\* os.listdir(folder): the version files and an unrelated file.  The file
\* contents range over all sequences, which covers every enumeration order.
listdir(folder, disk_) ==
    << ReadmeFile >> \o [i \in 1..Len(disk_) |-> VersionFile(i)]

\* lines 29-34: the matching entries of every folder, joined with the folder
RECURSIVE scan_folders(_, _)
scan_folders(fs, disk_) ==
    IF fs = << >> THEN << >>
    ELSE LET matching == SelectSeq(listdir(Head(fs), disk_), version_regex_match)
         IN [i \in 1..Len(matching) |-> join(Head(fs), matching[i])]
            \o scan_folders(Tail(fs), disk_)

\* json.load(open(path))
load(path, disk_) == [objects |-> [kind |-> "list", items |-> disk_[path.file.ver]]]

\* any(x["type"] == 'x-mitre-collection' for x in objects): the answer
any_collection(objects) == \E k \in 1..Len(objects.items) : IsCollection(objects.items[k])

\* ... and the iterable afterwards: a list is untouched, a filter object has
\* consumed everything up to and including the first collection object
after_any(objects) ==
    IF objects.kind = "list" \/ objects.items = << >> THEN objects
    ELSE IF any_collection(objects)
         THEN LET first == CHOOSE k \in 1..Len(objects.items) :
                               /\ IsCollection(objects.items[k])
                               /\ \A j \in 1..(k - 1) : ~IsCollection(objects.items[j])
              IN [objects EXCEPT !.items = SubSeq(@, first + 1, Len(@))]
         ELSE [objects EXCEPT !.items = << >>]

\* filter(lambda x: x["type"] == "x-mitre-collection", objects): lazy
lazy_filter(objects) == [kind |-> "filter", items |-> objects.items]

\* bundle.id inside the diagnostic: a plain dict has no such attribute
diagnostic_raises(bundle) == ~bundle.has_id_attr

\* lines 36-44 from bundle k on: the bundles as mutated, the positions of the
\* kept bundles, the diagnostics printed, and whether the diagnostic raised
RECURSIVE clean_bundles(_, _, _, _)
clean_bundles(bs, k, cleaned, out) ==
    IF k > Len(bs) THEN [bundles |-> bs, cleaned |-> cleaned, printed |-> out, raised |-> FALSE]
    ELSE LET probed == [bs EXCEPT ![k].objects = after_any(@)]
         IN IF any_collection(bs[k].objects)
            THEN clean_bundles([probed EXCEPT ![k].objects = lazy_filter(@)], k + 1,
                               Append(cleaned, k), out)
            ELSE IF diagnostic_raises(bs[k])
            THEN [bundles |-> probed, cleaned |-> cleaned, printed |-> out, raised |-> TRUE]
            ELSE clean_bundles(probed, k + 1, cleaned,
                               Append(out, << "cannot use bundle", k >>))

\* the comparison of the running maximum used for the running minimum
created_step_latest(index_created, created) ==
    IF index_created # None /\ DtGreater(index_created, isoparse(created))
    THEN index_created ELSE isoparse(created)

\* lines 68-69: one step of the running minimum; a datetime is always truthy
created_step(index_created, created) ==
    IF index_created # None /\ DtLess(index_created, isoparse(created))
    THEN index_created ELSE isoparse(created)

\* lines 73-74: one step of the running maximum
modified_step(index_modified, modified) ==
    IF index_modified # None /\ DtGreater(index_modified, isoparse(modified))
    THEN index_modified ELSE isoparse(modified)

RECURSIVE created_loop(_, _)
created_loop(table, acc) ==
    IF table = << >> THEN acc
    ELSE created_loop(Tail(table), created_step(acc, Head(table).created))

RECURSIVE versions_loop(_, _)
versions_loop(versions, acc) ==
    IF versions = << >> THEN acc
    ELSE versions_loop(Tail(versions), modified_step(acc, Head(versions).modified))

RECURSIVE modified_loop(_, _)
modified_loop(table, acc) ==
    IF table = << >> THEN acc
    ELSE modified_loop(Tail(table), versions_loop(Head(table).versions, acc))

\* the first element of the list taken instead of the last
label_version_first(versions) == versions[1]

\* lines 65-66: collection["versions"][-1]
label_version(versions) == versions[Len(versions)]

\* lines 76-77
strip(version) == [version |-> version.version, url |-> version.url, modified |-> version.modified]

finalize(collection) ==
    [id |-> collection.id, created |-> collection.created,
     name |-> label_version(collection.versions).name,
     description |-> label_version(collection.versions).description,
     versions |-> [k \in 1..Len(collection.versions) |-> strip(collection.versions[k])]]

finalize_all(table) == [k \in 1..Len(table) |-> finalize(table[k])]

Raised(error, line) == [kind |-> "raised", error |-> error, line |-> line]

\* lines 79-86; None.isoformat() raises AttributeError
build_index(table, uuid) ==
    LET index_created == created_loop(table, None)
        index_modified == modified_loop(table, None)
    IN IF index_created = None THEN Raised("AttributeError", 83)
       ELSE IF index_modified = None THEN Raised("AttributeError", 84)
       ELSE [kind |-> "index", id |-> uuid, name |-> IndexName,
             description |-> IndexDescription,
             created |-> isoformat(index_created),
             modified |-> isoformat(index_modified),
             collections |-> finalize_all(table)]

\* ------------------------------------------------------------------- Layout
UNSETVALUE == [unset |-> TRUE]

\* a bool held by a setting
Bool(b) == [bool |-> b]

\* a score that is set; a score that is not set is None
Score(n) == [value |-> n]

ScoreValues == { None, Score(0), Score(1), Score(-1) }

SubtechniqueLists == UNION { [1..n -> ScoreValues] : n \in 0..MaxSubtechniques }

Aggregates == { "average", "min", "max", "sum" }

\* Layout.__init__
NewLayout ==
    [showAggregateScores |-> UNSETVALUE, countUnscored |-> UNSETVALUE,
     aggregateFunction |-> "average"]

\* the properties showAggregateScores and countUnscored: None while unset
property(field) == IF field # UNSETVALUE THEN field ELSE None

\* truth value of what a property returns: None and False are false
Truthy(v) == v = Bool(TRUE)

RECURSIVE Sum(_)
Sum(data) == IF data = << >> THEN 0 ELSE Head(data) + Sum(Tail(data))

Min(data) == CHOOSE m \in { data[i] : i \in 1..Len(data) } : \A i \in 1..Len(data) : m <= data[i]

Max(data) == CHOOSE m \in { data[i] : i \in 1..Len(data) } : \A i \in 1..Len(data) : m >= data[i]

\* a number returned: num/den, the quotient of the true division kept exact
Number(n, d) == [kind |-> "return", value |-> [num |-> n, den |-> d]]

ReturnNone == [kind |-> "return", value |-> None]

Raise(error) == [kind |-> "raise", error |-> error]

\* lines 51-67; sum(data)/len(data), min(data) and max(data) raise on an empty list
aggFunction(self, data_block) ==
    IF ~Truthy(property(self.showAggregateScores)) THEN ReturnNone
    ELSE IF self.aggregateFunction = "average"
         THEN IF Len(data_block) = 0 THEN Raise("ZeroDivisionError")
              ELSE Number(Sum(data_block), Len(data_block))
    ELSE IF self.aggregateFunction = "min"
         THEN IF data_block = << >> THEN Raise("ValueError") ELSE Number(Min(data_block), 1)
    ELSE IF self.aggregateFunction = "max"
         THEN IF data_block = << >> THEN Raise("ValueError") ELSE Number(Max(data_block), 1)
    ELSE Number(Sum(data_block), 1)

\* lines 39-43: the scores of the subtechniques appended to scores
RECURSIVE collect(_, _, _)
collect(self, scores, subtechniques) ==
    IF subtechniques = << >> THEN scores
    ELSE LET x == Head(subtechniques)
         IN collect(self,
                    IF x # None THEN Append(scores, x.value)
                    ELSE IF Truthy(property(self.countUnscored)) THEN Append(scores, 0)
                    ELSE scores,
                    Tail(subtechniques))

\* the guard taken to need a score: an empty list is no longer all zero
all_zero_of_some(scores) == scores # << >> /\ \A i \in 1..Len(scores) : scores[i] = 0

\* line 44: all(x == 0 for x in scores)
all_zero(scores) == \A i \in 1..Len(scores) : scores[i] = 0

\* lines 28-49: the call as a record of its inputs, the list handed to
\* aggFunction (if it was called) and its outcome
compute_aggregate(self, technique, subtechniques) ==
    LET scores == collect(self, IF technique # None THEN << technique.value >> ELSE << >>,
                          subtechniques)
        call == [technique |-> technique, subtechniques |-> subtechniques]
    IN IF Truthy(property(self.showAggregateScores))
       THEN IF all_zero(scores)
            THEN [call |-> call, applied |-> FALSE, data_block |-> << >>,
                  outcome |-> ReturnNone]
            ELSE [call |-> call, applied |-> TRUE, data_block |-> scores,
                  outcome |-> aggFunction(self, scores)]
       ELSE [call |-> call, applied |-> FALSE, data_block |-> << >>, outcome |-> ReturnNone]

NoCall == [none |-> TRUE]

\* -------------------------------------------------------------------- state
VARIABLES
    disk,             \* contents of the version files of the folder, by number
    root_url,         \* argument root_url
    files,            \* argument files (empty when omitted)
    folders,          \* argument folders (empty when omitted)
    bundles,          \* argument bundles: the caller's objects, mutated by a run
    pc,               \* position of the current call of generate_index
    local_files,      \* local files after the folder scan
    cleaned_bundles,  \* positions in bundles of the bundles kept by the filter
    pos,              \* position of the running loop in its list
    collections,      \* the table: STIX id -> collection, in insertion order
    printed,          \* lines printed by the current call
    io,               \* directory listings and file reads of the current call
    processed,        \* the objects the extractor has visited in the current call
    results,          \* what every finished call returned or raised
    layout,           \* the settings of the layout object
    aggregate         \* what the step just taken returned when it was a call of
                      \* compute_aggregate, NoCall otherwise

vars == << disk, root_url, files, folders, bundles, pc, local_files, cleaned_bundles,
           pos, collections, printed, io, processed, results, layout, aggregate >>

Paths(disk_) == [i \in 1..Len(disk_) |-> join(Folder, VersionFile(i))]

AsBundles(disk_, attr) ==
    [i \in 1..Len(disk_) |->
        [objects |-> [kind |-> "list", items |-> disk_[i]], has_id_attr |-> attr]]

Init ==
    /\ disk \in SourceLists
    /\ root_url \in RootUrls
    /\ files \in { << >>, Paths(disk) }
    /\ folders \in { << >>, << Folder >> }
    /\ bundles \in { << >> } \cup { AsBundles(disk, attr) : attr \in BOOLEAN }
    /\ pc = "idle"
    /\ local_files = << >>
    /\ cleaned_bundles = << >>
    /\ pos = 1
    /\ collections = << >>
    /\ printed = << >>
    /\ io = << >>
    /\ processed = << >>
    /\ results = << >>
    /\ layout = NewLayout
    /\ aggregate = NoCall

\* where the call continues once the loop over list `rest` is at position p
AfterFiles(cleaned) == IF cleaned # << >> THEN "bundles" ELSE "assemble"

Visits(bundle, url) ==
    [k \in 1..Len(visited(bundle)) |-> [object |-> visited(bundle)[k], url |-> url]]

\* lines 26-48 of a call of generate_index with the caller's arguments
Enter ==
    /\ pc = "idle"
    /\ LET warned == IF files # << >> /\ folders # << >> THEN << UsageMessage >> ELSE << >>
           scanned == IF folders # << >> THEN scan_folders(folders, disk) ELSE files
           listed == IF folders # << >>
                     THEN [k \in 1..Len(folders) |-> << "listdir", folders[k] >>]
                     ELSE << >>
           f == clean_bundles(bundles, 1, << >>, warned)
       IN /\ bundles' = f.bundles
          /\ printed' = f.printed
          /\ io' = listed
          /\ processed' = << >>
          /\ local_files' = scanned
          /\ cleaned_bundles' = f.cleaned
          /\ collections' = << >>
          /\ pos' = 1
          /\ IF f.raised
             THEN /\ pc' = "idle"
                  /\ results' = Append(results, Raised("AttributeError", 44))
             ELSE /\ pc' = IF scanned # << >> THEN "files" ELSE AfterFiles(f.cleaned)
                  /\ UNCHANGED results
    /\ UNCHANGED << disk, root_url, files, folders, layout, aggregate >>

\* lines 51-56: one iteration of the loop over the files
ExtractFile ==
    /\ pc = "files"
    /\ LET path == local_files[pos]
       IN /\ collections' = extract_collection(load(path, disk), collections,
                                                FileUrl(root_url, path))
          /\ io' = Append(io, << "open", path >>)
          /\ processed' = processed \o Visits(load(path, disk), FileUrl(root_url, path))
    /\ IF pos < Len(local_files)
       THEN pos' = pos + 1 /\ UNCHANGED pc
       ELSE pos' = 1 /\ pc' = AfterFiles(cleaned_bundles)
    /\ UNCHANGED << disk, root_url, files, folders, bundles, local_files, cleaned_bundles,
                    printed, results, layout, aggregate >>

\* lines 59-61: one iteration of the loop over the kept bundles
ExtractBundle ==
    /\ pc = "bundles"
    /\ LET b == cleaned_bundles[pos]
       IN /\ collections' = extract_collection(bundles[b], collections, ImportedUrl)
          /\ bundles' = [bundles EXCEPT ![b].objects = Exhausted(@)]
          /\ processed' = processed \o Visits(bundles[b], ImportedUrl)
    /\ IF pos < Len(cleaned_bundles)
       THEN pos' = pos + 1 /\ UNCHANGED pc
       ELSE pos' = 1 /\ pc' = "assemble"
    /\ UNCHANGED << disk, root_url, files, folders, local_files, cleaned_bundles,
                    printed, io, results, layout, aggregate >>

\* lines 63-86: the records are finalized in place and the index is returned
Assemble ==
    /\ pc = "assemble"
    /\ LET r == build_index(collections, << "uuid4", Len(results) + 1 >>)
       IN /\ results' = Append(results, r)
          /\ collections' = finalize_all(collections)
    /\ pc' = "idle"
    /\ UNCHANGED << disk, root_url, files, folders, bundles, local_files, cleaned_bundles,
                    pos, printed, io, processed, layout, aggregate >>

\* the caller's call of generate_index
Call == results = << >> /\ Enter

\* the caller calls again with the same arguments and the same bundle objects
CallAgain == results # << >> /\ Len(results) < MaxRuns /\ Enter

Next == Call \/ ExtractFile \/ ExtractBundle \/ Assemble

Spec == Init /\ [][Next]_vars

NextRepeated == Call \/ CallAgain \/ ExtractFile \/ ExtractBundle \/ Assemble

SpecRepeated == Init /\ [][NextRepeated]_vars

\* ----------------------------------------------------------- Layout actions
index_vars == << disk, root_url, files, folders, bundles, pc, local_files, cleaned_bundles,
                 pos, collections, printed, io, processed, results >>

\* a layout object on its own: no index is being generated
InitLayout ==
    /\ disk = << >>
    /\ root_url \in RootUrls
    /\ files = << >>
    /\ folders = << >>
    /\ bundles = << >>
    /\ pc = "idle"
    /\ local_files = << >>
    /\ cleaned_bundles = << >>
    /\ pos = 1
    /\ collections = << >>
    /\ printed = << >>
    /\ io = << >>
    /\ processed = << >>
    /\ results = << >>
    /\ layout = NewLayout
    /\ aggregate = NoCall

\* the setter of showAggregateScores, given a bool
SetShowAggregateScores ==
    /\ \E b \in BOOLEAN : layout' = [layout EXCEPT !.showAggregateScores = Bool(b)]
    /\ aggregate' = NoCall
    /\ UNCHANGED index_vars

\* the setter of countUnscored, given a bool
SetCountUnscored ==
    /\ \E b \in BOOLEAN : layout' = [layout EXCEPT !.countUnscored = Bool(b)]
    /\ aggregate' = NoCall
    /\ UNCHANGED index_vars

\* the setter of aggregateFunction, given one of the four names
SetAggregateFunction ==
    /\ \E f \in Aggregates : layout' = [layout EXCEPT !.aggregateFunction = f]
    /\ aggregate' = NoCall
    /\ UNCHANGED index_vars

\* a call of compute_aggregate
ComputeAggregate ==
    /\ \E technique \in ScoreValues, subtechniques \in SubtechniqueLists :
          aggregate' = compute_aggregate(layout, technique, subtechniques)
    /\ UNCHANGED << index_vars, layout >>

NextLayout ==
    SetShowAggregateScores \/ SetCountUnscored \/ SetAggregateFunction \/ ComputeAggregate

SpecLayout == InitLayout /\ [][NextLayout]_vars

\* ------------------------------------------------------------------ helpers
Last(s) == s[Len(s)]

ModifiedInstant(version) == Instant(isoparse(version.modified))

CreatedInstant(x) == Instant(isoparse(x.created))

\* the visits of the current call to objects of identity i, in processing order
ProcessedOf(i) == SelectSeq(processed, LAMBDA e : e.object.id = i)

Indexes == { results[i] : i \in { j \in 1..Len(results) : results[j].kind = "index" } }

\* --------------------------------------------------------------- properties

\* C1: in every state, between and after the calls of extract_collection, every
\* record of the table has a non-empty version list sorted descending by modified.
C1_VersionsSortedNonEmpty ==
    \A k \in 1..Len(collections) :
        LET vs == collections[k].versions
        IN /\ vs # << >>
           /\ \A i, j \in 1..Len(vs) : i < j => ModifiedInstant(vs[i]) >= ModifiedInstant(vs[j])

\* C1 witness: between two calls of extract_collection, the files read and the
\* bundles still to come, a record holds three versions whose newest was
\* appended last.
C1_Witness ==
    /\ pc = "bundles"
    /\ \E k \in 1..Len(collections) :
          /\ Len(collections[k].versions) >= 3
          /\ LET own == ProcessedOf(collections[k].id)
             IN \A i \in 1..(Len(own) - 1) :
                    ModifiedInstant(own[i].object) < ModifiedInstant(Last(own).object)

FirstCreatedKept ==
    \A k \in 1..Len(collections) :
        collections[k].created = ProcessedOf(collections[k].id)[1].object.created

\* C2: every step leaves the created value of every record already in the table
\* unchanged, and the value is the created of the first object processed with
\* that identity, whatever created the later objects carry.
C2_CreatedSetOnceFromFirst ==
    [][ /\ FirstCreatedKept'
        /\ \A k \in 1..Len(collections) :
               k <= Len(collections') =>
                   /\ collections'[k].id = collections[k].id
                   /\ collections'[k].created = collections[k].created ]_vars

\* C2 witness: an identity was processed three times, the second time with a later
\* and the third time with an earlier created value than the first.
C2_Witness ==
    \E k \in 1..Len(collections) :
        LET own == ProcessedOf(collections[k].id)
        IN /\ Len(own) >= 3
           /\ CreatedInstant(own[2].object) > CreatedInstant(own[1].object)
           /\ CreatedInstant(own[3].object) < CreatedInstant(own[2].object)

\* C3: a returned index has created equal to the minimum of created over its
\* records and modified equal to the maximum of modified over all their versions.
C3_IndexTimestamps ==
    \A r \in Indexes :
        LET cs == r.collections
            createds == { CreatedInstant(cs[k]) : k \in 1..Len(cs) }
            modifieds == UNION { { ModifiedInstant(cs[k].versions[j]) :
                                     j \in 1..Len(cs[k].versions) } : k \in 1..Len(cs) }
        IN /\ cs # << >>
           /\ CreatedInstant(r) \in createds
           /\ \A c \in createds : CreatedInstant(r) <= c
           /\ ModifiedInstant(r) \in modifieds
           /\ \A m \in modifieds : ModifiedInstant(r) >= m

\* C3 witness: an index of two records where the second record was created
\* earlier and the first record holds the latest modified.
C3_Witness ==
    \E r \in Indexes :
        /\ Len(r.collections) = 2
        /\ CreatedInstant(r.collections[2]) < CreatedInstant(r.collections[1])
        /\ \E j \in 1..Len(r.collections[1].versions) :
              ModifiedInstant(r.collections[1].versions[j])
                  > ModifiedInstant(r.collections[2].versions[1])

ReachedAssembly ==
    /\ pc = "idle"
    /\ results # << >>
    /\ ~(Last(results).kind = "raised" /\ Last(results).line = 44)

\* C5: a call whose table is empty when the sources are processed ends with the
\* error NoCollectionsFound.
C5_EmptyTableIsNoCollectionsFound ==
    (ReachedAssembly /\ collections = << >>) =>
        (Last(results).kind = "raised" /\ Last(results).error = "NoCollectionsFound")

\* C6: a call given both a file list and a folder list ends with UsageConflict
\* and has listed no directory, read no file and extracted nothing.
C6_UsageConflictRejected ==
    (files # << >> /\ folders # << >>) =>
        /\ io = << >>
        /\ processed = << >>
        /\ pc = "idle"
        /\ \A i \in 1..Len(results) :
              results[i].kind = "raised" /\ results[i].error = "UsageConflict"

\* the collection objects of the bundles as the caller built them, in order
RECURSIVE CollectionObjectsOf(_)
CollectionObjectsOf(contents) ==
    IF contents = << >> THEN << >>
    ELSE SelectSeq(Head(contents), IsCollection) \o CollectionObjectsOf(Tail(contents))

\* C7: the first call in bundle-object mode never stops in the bundle filter; when
\* it has finished, every bundle without a collection object was named in a
\* diagnostic and exactly the collection objects of the bundles were processed.
C7_InvalidBundleSkipped ==
    (files = << >> /\ folders = << >> /\ bundles # << >> /\ pc = "idle" /\ Len(results) = 1) =>
        /\ ~(results[1].kind = "raised" /\ results[1].line = 44)
        /\ \A b \in 1..Len(disk) :
              (\A j \in 1..Len(disk[b]) : ~IsCollection(disk[b][j])) =>
                  \E n \in 1..Len(printed) : printed[n] = << "cannot use bundle", b >>
        /\ [n \in 1..Len(processed) |-> processed[n].object] = CollectionObjectsOf(disk)

\* C8: a record holds one version per processed object of its identity and its
\* created is that of the first of them; when their modified values are pairwise
\* distinct the versions are strictly descending; a single processed object
\* leaves a table of one record with one version.
C8_OneVersionPerObject ==
    /\ \A n \in 1..Len(processed) : HasId(collections, processed[n].object.id)
    /\ \A k \in 1..Len(collections) :
          LET own == ProcessedOf(collections[k].id)
              vs == collections[k].versions
          IN /\ Len(vs) = Len(own)
             /\ collections[k].created = own[1].object.created
             /\ (\A i, j \in 1..Len(own) :
                    i # j => ModifiedInstant(own[i].object) # ModifiedInstant(own[j].object))
                 => \A i, j \in 1..Len(vs) :
                        i < j => ModifiedInstant(vs[i]) > ModifiedInstant(vs[j])
    /\ Len(processed) = 1 => (Len(collections) = 1 /\ Len(collections[1].versions) = 1)

\* C8 witness: three files, one object each, one identity, pairwise distinct
\* modified values, processed oldest, newest, middle, with differing created.
C8_Witness ==
    /\ pc = "assemble"
    /\ Len(local_files) = 3
    /\ Len(processed) = 3
    /\ Len(collections) = 1
    /\ ModifiedInstant(processed[1].object) < ModifiedInstant(processed[3].object)
    /\ ModifiedInstant(processed[3].object) < ModifiedInstant(processed[2].object)
    /\ CreatedInstant(processed[1].object) # CreatedInstant(processed[2].object)

\* C9: when a first call returned an index, a second call with the same arguments
\* returns an index with another id and the same name, description, created,
\* modified and collections.
C9_SecondRunSameContent ==
    (Len(results) >= 2 /\ results[1].kind = "index") =>
        /\ results[2].kind = "index"
        /\ results[2].id # results[1].id
        /\ results[2].name = results[1].name
        /\ results[2].description = results[1].description
        /\ results[2].created = results[1].created
        /\ results[2].modified = results[1].modified
        /\ results[2].collections = results[1].collections

\* the place the stable descending sort gives the n-th of the modified instants
\* `at`: behind the later ones and behind the equal ones that came before it
StablePlace(at, n) ==
    Cardinality({ i \in 1..Len(at) : at[i] > at[n] \/ (i <= n /\ at[i] = at[n]) })

\* C10: every processed object's version stands at the place of the stable
\* descending sort: behind the versions of later modified and behind the versions
\* of equal modified that were extracted before it.
C10_TiesKeepInsertionOrder ==
    \A k \in 1..Len(collections) :
        LET own == ProcessedOf(collections[k].id)
            vs == collections[k].versions
            at == [i \in 1..Len(own) |-> ModifiedInstant(own[i].object)]
        IN /\ Len(vs) = Len(own)
           /\ \A n \in 1..Len(own) :
                 strip(vs[StablePlace(at, n)]) = strip(NewVersion(own[n].object, own[n].url))

\* C10 witness: a record holds two versions of equal modified that differ in
\* their label, and a newer version that was extracted after them.
C10_Witness ==
    \E k \in 1..Len(collections) :
        LET own == ProcessedOf(collections[k].id)
        IN /\ Len(own) = 3
           /\ ModifiedInstant(own[1].object) = ModifiedInstant(own[2].object)
           /\ own[1].object.x_mitre_version # own[2].object.x_mitre_version
           /\ ModifiedInstant(own[3].object) > ModifiedInstant(own[1].object)

\* the scores given to the call are all unset or 0
InputsAllZero ==
    /\ aggregate.call.technique \in { None, Score(0) }
    /\ \A i \in 1..Len(aggregate.call.subtechniques) :
          aggregate.call.subtechniques[i] \in { None, Score(0) }

\* C11: a call of compute_aggregate never hands aggFunction an empty list and
\* never raises; it returns None, without calling aggFunction, when
\* showAggregateScores is not true or when every score given is unset or 0.
C11_AggregateNeverOnEmptyList ==
    aggregate # NoCall =>
        /\ aggregate.applied => aggregate.data_block # << >>
        /\ aggregate.outcome.kind = "return"
        /\ (layout.showAggregateScores # Bool(TRUE) \/ InputsAllZero) =>
               (~aggregate.applied /\ aggregate.outcome = ReturnNone)

\* C11 witness: the average is selected and scores are shown, unscored
\* subtechniques are not counted, and neither the technique nor its
\* subtechniques carry a score: no score is collected and None is returned.
C11_Witness ==
    /\ aggregate # NoCall
    /\ layout.showAggregateScores = Bool(TRUE)
    /\ layout.countUnscored # Bool(TRUE)
    /\ layout.aggregateFunction = "average"
    /\ aggregate.call.technique = None
    /\ Len(aggregate.call.subtechniques) >= 2
    /\ \A i \in 1..Len(aggregate.call.subtechniques) : aggregate.call.subtechniques[i] = None
    /\ aggregate.outcome = ReturnNone

====
